---- MODULE Spec2Model ----
(***************************************************************************)
(* A model of the ledger node of src/node_server.py: Block, Blockchain and *)
(* the request handlers that drive them.                                   *)
(*                                                                         *)
(* Strings that are hashes are modelled as sequences of integers: the      *)
(* first element stands for the leading `difficulty` hex characters of the *)
(* digest, the rest for the remaining characters.  sha256 is taken to be   *)
(* collision free, so the remaining characters are the serialised input.   *)
(* Python lists are objects: a block's `transactions` is a reference into  *)
(* the node's heap of lists, as is the pending pool.                       *)
(***************************************************************************)
EXTENDS Integers, Sequences, FiniteSets, TLC

\* ---------------------------------------------------------------- bounds
\* Greatest length a chain is let to grow to.
MaxChain == 3
\* Greatest number of transactions accepted over a run.
MaxTx == 2
\* Greatest reading of the clock (time.time()).
MaxTime == 1
\* Number of values the leading `difficulty` hex characters of a digest take.
LeadSpace == 2

\* The nodes of the network, named by their addresses; 0 is the empty address.
Nodes == {1, 2}
NoAddress == 0

\* The request threads of a node that serves requests concurrently.
Threads == {1, 2}

VARIABLES
  chain,   \* chain[n]: blockchain.chain of node n, a sequence of blocks
  heap,    \* heap[n]: the list objects of node n, each a sequence of transactions
  pool,    \* pool[n]: blockchain.unconfirmed_transactions, a reference into heap[n]
  peers,   \* peers[n]: the global peers of node n
  now,     \* the clock time.time() reads
  nextId,  \* identity of the next transaction object
  last,    \* the request handled last: what it was given and what it answered
  pc,      \* pc[t]: where request thread t of the threaded node stands in mine()
  loc      \* loc[t]: the locals of request thread t

vars == <<chain, heap, pool, peers, now, nextId, last, pc, loc>>

\* ------------------------------------------------------------ hash engine
\* The string "0", previous_hash of a genesis block: it is no digest and does
\* not start with `difficulty` zeros.
ZeroString == <<-1>>

\* An attribute a block object does not have (nonce before proof_of_work,
\* hash before add_block).
NoNonce == -1
NoHash == <<>>

RECURSIVE SumSeq(_)
SumSeq(s) == IF s = <<>> THEN 0 ELSE Head(s) + SumSeq(Tail(s))

StrCode(s) == IF s = "" THEN 0 ELSE IF s = "a" THEN 1 ELSE 2

\* json.dumps of one transaction dict, keys sorted.
TxString(tx) == <<StrCode(tx.author), StrCode(tx.content), tx.timestamp>>

RECURSIVE TxsString(_)
TxsString(txs) ==
  IF txs = <<>> THEN <<>> ELSE TxString(Head(txs)) \o TxsString(Tail(txs))

\* json.dumps(self.__dict__, sort_keys=True): every attribute the object has at
\* the time of the call, in the order hash, index, nonce, previous_hash,
\* timestamp, transactions.  d is the block with its transactions resolved.
block_string(d) ==
  (IF d.hash = NoHash THEN <<0>> ELSE <<1, Len(d.hash)>> \o d.hash)
  \o <<d.index>>
  \o (IF d.nonce = NoNonce THEN <<0>> ELSE <<1, d.nonce>>)
  \o <<Len(d.previous_hash)>> \o d.previous_hash
  \o <<d.timestamp>>
  \o <<Len(d.transactions)>> \o TxsString(d.transactions)

\* sha256(...).hexdigest(): the leading characters, then the rest.
sha256(s) == <<SumSeq(s) % LeadSpace>> \o s

\* block_hash.startswith('0' * Blockchain.difficulty)
StartsWithZeros(h) == Head(h) = 0

\* block.__dict__ as a value: the transactions list read through the heap.
BlockDict(b, hp) == [b EXCEPT !.transactions = hp[b.transactions]]

\* Block.compute_hash
compute_hash(b, hp) == sha256(block_string(BlockDict(b, hp)))

\* Block.__init__: no nonce and no hash attribute yet.
Block(index, transactions, timestamp, previous_hash) ==
  [index |-> index, transactions |-> transactions, timestamp |-> timestamp,
   previous_hash |-> previous_hash, nonce |-> NoNonce, hash |-> NoHash]

\* ------------------------------------------------------------- Blockchain
\* create_genesis_block with the genesis block built over the list the
\* pending pool is bound to (the first list __init__ makes).
create_genesis_block_over_pool(ref, hp, t) ==
  LET g == Block(0, 1, t, ZeroString)
  IN  [g EXCEPT !.hash = compute_hash(g, hp)]

\* Blockchain.create_genesis_block: the hash is computed before the hash
\* attribute is set.  The genesis block holds its own empty list.
create_genesis_block(ref, hp, t) ==
  LET g == Block(0, ref, t, ZeroString)
  IN  [g EXCEPT !.hash = compute_hash(g, hp)]

\* Blockchain.last_block
last_block(ch) == ch[Len(ch)]

\* Blockchain.proof_of_work: the nonce the loop stops at, counting up from k.
RECURSIVE PoWFrom(_, _, _)
PoWFrom(b, hp, k) ==
  IF StartsWithZeros(compute_hash([b EXCEPT !.nonce = k], hp))
  THEN k ELSE PoWFrom(b, hp, k + 1)

\* proof_of_work with the search started at nonce 1.
proof_of_work_from_one(b, hp) == [b EXCEPT !.nonce = PoWFrom(b, hp, 1)]

\* The block as proof_of_work leaves it (nonce set); the proof is its hash.
proof_of_work(b, hp) == [b EXCEPT !.nonce = PoWFrom(b, hp, 0)]

\* is_valid_proof without the comparison with the recomputed hash.
is_valid_proof_prefix_only(b, block_hash, hp) == StartsWithZeros(block_hash)

\* Blockchain.is_valid_proof
is_valid_proof(b, block_hash, hp) ==
  StartsWithZeros(block_hash) /\ block_hash = compute_hash(b, hp)

\* add_block without the test of lines 92-93.
add_block_ok_without_linkage(ch, hp, b, proof) == is_valid_proof(b, proof, hp)

\* Blockchain.add_block: whether the block is appended (the return value).
add_block_ok(ch, hp, b, proof) ==
  /\ last_block(ch).hash = b.previous_hash
  /\ is_valid_proof(b, proof, hp)

\* Blockchain.add_block: the chain afterwards.
add_block(ch, hp, b, proof) ==
  IF add_block_ok(ch, hp, b, proof)
  THEN Append(ch, [b EXCEPT !.hash = proof])
  ELSE ch

\* mine with the new block given the index of the tip.
RECURSIVE mine_loop_tip_index(_, _, _, _, _)
mine_loop_tip_index(ch, hp, ref, i, ts) ==
  IF i > Len(hp[ref]) THEN ch
  ELSE LET lb == last_block(ch)
           new_block == proof_of_work(Block(lb.index, ref, ts[i], lb.hash), hp)
           proof == compute_hash(new_block, hp)
       IN  mine_loop_tip_index(add_block(ch, hp, new_block, proof), hp, ref, i + 1, ts)

\* Blockchain.mine, lines 123-131: the loop runs once per element of the list
\* it iterates over; every round builds a block over the list the pool is
\* bound to, on the tip of that moment, seals it and hands it to add_block,
\* whose answer it drops.  ts[i] is the clock reading of round i.
RECURSIVE mine_loop(_, _, _, _, _)
mine_loop(ch, hp, ref, i, ts) ==
  IF i > Len(hp[ref]) THEN ch
  ELSE LET lb == last_block(ch)
           new_block == proof_of_work(Block(lb.index + 1, ref, ts[i], lb.hash), hp)
           proof == compute_hash(new_block, hp)
       IN  mine_loop(add_block(ch, hp, new_block, proof), hp, ref, i + 1, ts)

\* Blockchain.__init__ with chain=None, constructed at time t: the pool list,
\* then the chain with its genesis block.
NewHeap == << <<>>, <<>> >>
NewPool == 1
NewChain(t) == << create_genesis_block(2, NewHeap, t) >>

\* get_chain: the dump of every block's __dict__.
chain_dump(ch, hp) == [i \in 1..Len(ch) |-> BlockDict(ch[i], hp)]

\* --------------------------------------------------------- what was asked
NoBlock == [index |-> -1, transactions |-> <<>>, timestamp |-> -1,
            previous_hash |-> NoHash, nonce |-> NoNonce, hash |-> NoHash]

\* down: the peers whose chain could not be fetched while the request ran.
Answer(op, n, ret, num, block, proof) ==
  [op |-> op, node |-> n, ret |-> ret, num |-> num, block |-> block,
   proof |-> proof, down |-> {}]

\* The JSON body of a POST /new_transaction, as the answer records it.
Submitted(author, content) ==
  [NoBlock EXCEPT !.transactions =
     <<[id |-> 0, author |-> author, content |-> content, timestamp |-> 0]>>]

\* Clock readings of k successive time.time() calls, none before now.
TimeSeqs(k) ==
  {ts \in [1..k -> now..MaxTime] : \A i \in 1..(k - 1) : ts[i] <= ts[i + 1]}

Max(S) == CHOOSE x \in S : \A y \in S : y <= x

\* ------------------------------------------------------------------- Init
\* The locals of a request thread that is not in mine().
Idle == [it |-> 0, pos |-> 0, numero |-> 0, proof |-> NoHash,
         new_block |-> Block(-1, 0, -1, NoHash)]

InitAt(start) ==
    /\ chain = [n \in Nodes |-> NewChain(start[n])]
    /\ heap = [n \in Nodes |-> NewHeap]
    /\ pool = [n \in Nodes |-> NewPool]
    /\ peers = [n \in Nodes |-> {}]
    /\ now = Max({start[n] : n \in Nodes})
    /\ nextId = 1
    /\ last = Answer("init", 0, "", 0, NoBlock, NoHash)
    /\ pc = [t \in Threads |-> "idle"]
    /\ loc = [t \in Threads |-> Idle]

\* Every node was started at some time.
Init == \E start \in [Nodes -> 0..MaxTime] : InitAt(start)

\* All nodes were started at the same time.
InitTogether == \E t \in 0..MaxTime : InitAt([n \in Nodes |-> t])

\* ------------------------------------------------------ handlers, in turn
\* time passes
Tick ==
  /\ now < MaxTime
  /\ now' = now + 1
  /\ last' = Answer("tick", 0, "", 0, NoBlock, NoHash)
  /\ UNCHANGED <<chain, heap, pool, peers, nextId, pc, loc>>

\* new_transaction with author as the only required field.
new_transaction_author_only(n, author, content) ==
  /\ IF author = ""
     THEN /\ last' = Answer("new_transaction", n, "404", 0,
                            Submitted(author, content), NoHash)
          /\ UNCHANGED <<heap, nextId>>
     ELSE /\ nextId <= MaxTx
          /\ heap' = [heap EXCEPT ![n][pool[n]] =
                        Append(@, [id |-> nextId, author |-> author,
                                   content |-> content, timestamp |-> now])]
          /\ nextId' = nextId + 1
          /\ last' = Answer("new_transaction", n, "201", 0,
                            Submitted(author, content), NoHash)
  /\ UNCHANGED <<chain, pool, peers, now, pc, loc>>

\* POST /new_transaction, with Blockchain.add_new_transaction.  A field that
\* is missing reads as None, which is as false as the empty string.
new_transaction(n, author, content) ==
  /\ IF author = "" \/ content = ""
     THEN /\ last' = Answer("new_transaction", n, "404", 0,
                            Submitted(author, content), NoHash)
          /\ UNCHANGED <<heap, nextId>>
     ELSE /\ nextId <= MaxTx
          /\ heap' = [heap EXCEPT ![n][pool[n]] =
                        Append(@, [id |-> nextId, author |-> author,
                                   content |-> content, timestamp |-> now])]
          /\ nextId' = nextId + 1
          /\ last' = Answer("new_transaction", n, "201", 0,
                            Submitted(author, content), NoHash)
  /\ UNCHANGED <<chain, pool, peers, now, pc, loc>>

\* mine without the test of lines 120-121.
mine_without_empty_test(n) ==
  LET L == heap[n][pool[n]]
  IN  /\ Len(chain[n]) + Len(L) <= MaxChain
      /\ \E ts \in TimeSeqs(Len(L)) :
           chain' = [chain EXCEPT ![n] = mine_loop(@, heap[n], pool[n], 1, ts)]
      /\ heap' = [heap EXCEPT ![n] = Append(@, <<>>)]
      /\ pool' = [pool EXCEPT ![n] = Len(heap[n]) + 1]
      /\ last' = Answer("mine", n, IF L = <<>> THEN "False" ELSE "numero",
                        Len(L), NoBlock, NoHash)
      /\ UNCHANGED <<peers, now, nextId, pc, loc>>

\* GET /mine, with Blockchain.mine
mine(n) ==
  LET L == heap[n][pool[n]]
  IN  IF L = <<>>
      THEN /\ last' = Answer("mine", n, "False", 0, NoBlock, NoHash)
           /\ UNCHANGED <<chain, heap, pool, peers, now, nextId, pc, loc>>
      ELSE /\ Len(chain[n]) + Len(L) <= MaxChain
           /\ \E ts \in TimeSeqs(Len(L)) :
                /\ chain' = [chain EXCEPT ![n] = mine_loop(@, heap[n], pool[n], 1, ts)]
                /\ now' = ts[Len(L)]
           /\ heap' = [heap EXCEPT ![n] = Append(@, <<>>)]
           /\ pool' = [pool EXCEPT ![n] = Len(heap[n]) + 1]
           /\ last' = Answer("mine", n, "numero", Len(L), NoBlock, NoHash)
           /\ UNCHANGED <<peers, nextId, pc, loc>>

\* A transaction that reaches a node inside a block built elsewhere.
ExtTx == [id |-> 0, author |-> "a", content |-> "hi", timestamp |-> 0]

\* The blocks a caller in the process hands to Blockchain.add_block: built by
\* Block.__init__ over a list of the caller's, with or without a nonce
\* attribute, on the tip, on an older block or on nothing.
CallIndexes(ch) == {0, last_block(ch).index + 1}
CallTxs == {<<ExtTx>>}
CallPrevious(ch) == {last_block(ch).hash, ch[1].hash, ZeroString}
\* No nonce, the nonce proof_of_work finds, or the one after it.
CallNonces(b, hp) ==
  LET found == PoWFrom(b, hp, 0)
  IN  {NoNonce, found, (found + 1) % LeadSpace}
\* The proofs handed along: the block's own digest or, with a sealed block,
\* also the digest of another sealed block.
CallProofs(b, hp) ==
  {compute_hash(b, hp)} \cup
  (IF b.nonce # NoNonce /\ StartsWithZeros(compute_hash(b, hp))
   THEN {compute_hash(proof_of_work([b EXCEPT !.index = @ + 1], hp), hp)}
   ELSE {})

\* A call of Blockchain.add_block(block, proof), lines 82-100.
add_block_call(n) ==
  /\ Len(chain[n]) < MaxChain
  /\ \E index \in CallIndexes(chain[n]), txs \in CallTxs,
        previous_hash \in CallPrevious(chain[n]) :
       LET hp == Append(heap[n], txs)
           b0 == Block(index, Len(hp), now, previous_hash)
       IN  \E nonce \in CallNonces(b0, hp) :
           LET b == [b0 EXCEPT !.nonce = nonce]
           IN  \E proof \in CallProofs(b, hp) :
             IF add_block_ok(chain[n], hp, b, proof)
             THEN /\ chain' = [chain EXCEPT ![n] = add_block(@, hp, b, proof)]
                  /\ heap' = [heap EXCEPT ![n] = hp]
                  /\ last' = Answer("add_block", n, "True", 0, BlockDict(b, hp), proof)
             ELSE /\ last' = Answer("add_block", n, "False", 0, BlockDict(b, hp), proof)
                  /\ UNCHANGED <<chain, heap>>
  /\ UNCHANGED <<pool, peers, now, nextId, pc, loc>>

\* POST /add_block, lines 336-348: block_data["timestamp", block_data["previous_hash"]]
\* looks a tuple up in the dict, which raises KeyError before any Block is
\* built.  The block delivered is a block of node m's chain, as
\* announce_new_block posts it.
validate_and_add_block(n, m, i) ==
  /\ m # n
  /\ i \in 2..Len(chain[m])
  /\ last' = Answer("validate_and_add_block", n, "KeyError", m,
                    BlockDict(chain[m][i], heap[m]), chain[m][i].hash)
  /\ UNCHANGED <<chain, heap, pool, peers, now, nextId, pc, loc>>

\* consensus, lines 355-377: len(blockchain) raises TypeError, Blockchain
\* defines no __len__; nothing after line 363 runs, whichever peers could have
\* been reached.
consensus(n, down) ==
  /\ last' = [Answer("consensus", n, "TypeError", 0, NoBlock, NoHash)
                EXCEPT !.down = down]
  /\ UNCHANGED <<chain, heap, pool, peers, now, nextId, pc, loc>>

\* POST /register_node, lines 290-301
register_new_peers(m, node_address) ==
  /\ IF node_address = NoAddress
     THEN /\ last' = Answer("register_new_peers", m, "400", 0, NoBlock, NoHash)
          /\ UNCHANGED peers
     ELSE /\ peers' = [peers EXCEPT ![m] = @ \cup {node_address}]
          /\ last' = Answer("register_new_peers", m, "200", 0, NoBlock, NoHash)
  /\ UNCHANGED <<chain, heap, pool, now, nextId, pc, loc>>

\* create_chain_from_dump, lines 235-247: what the call raises.  Block takes
\* four arguments and is given five; block_data["nonce"] is read before the
\* call and is missing from a block that was added without one.
create_chain_from_dump_raises(chain_dump_) ==
  IF Len(chain_dump_) <= 1 THEN "no"
  ELSE IF chain_dump_[2].nonce = NoNonce THEN "KeyError" ELSE "TypeError"

\* POST /register_with, lines 304-332.  The remote node m runs
\* register_new_peers with this node's address and answers get_chain(), which
\* has no "peers" key.  A dump of the genesis block alone makes
\* create_chain_from_dump return a new Blockchain, which is bound to the
\* global before response.json()['peers'] raises KeyError.
register_with_existing_node(n, node_address) ==
  IF node_address = NoAddress
  THEN /\ last' = Answer("register_with", n, "400", 0, NoBlock, NoHash)
       /\ UNCHANGED <<chain, heap, pool, peers, now, nextId, pc, loc>>
  ELSE LET m == node_address
           raised == create_chain_from_dump_raises(chain_dump(chain[m], heap[m]))
       IN  /\ m # n
           /\ peers' = [peers EXCEPT ![m] = @ \cup {n}]
           /\ IF raised = "no"
              THEN /\ chain' = [chain EXCEPT ![n] = NewChain(now)]
                   /\ heap' = [heap EXCEPT ![n] = NewHeap]
                   /\ pool' = [pool EXCEPT ![n] = NewPool]
                   /\ last' = Answer("register_with", n, "KeyError", m, NoBlock, NoHash)
              ELSE /\ last' = Answer("register_with", n, raised, m, NoBlock, NoHash)
                   /\ UNCHANGED <<chain, heap, pool>>
           /\ UNCHANGED <<now, nextId, pc, loc>>

\* The requests a network of nodes serves, one at a time.
Next ==
  \/ Tick
  \/ \E n \in Nodes, author \in {"", "a"}, content \in {"", "hi"} :
       new_transaction(n, author, content)
  \/ \E n \in Nodes : mine(n)
  \/ \E n \in Nodes, m \in Nodes, i \in 2..MaxChain : validate_and_add_block(n, m, i)
  \/ \E n \in Nodes : \E down \in SUBSET peers[n] : consensus(n, down)
  \/ \E m \in Nodes : \E a \in (Nodes \ {m}) \cup {NoAddress} : register_new_peers(m, a)
  \/ \E n \in Nodes, a \in Nodes \cup {NoAddress} : register_with_existing_node(n, a)

Spec == Init /\ [][Next]_vars

\* One Blockchain object and the calls of its methods, one at a time: the
\* object is the one of node Obj.
Obj == CHOOSE n \in Nodes : \A m \in Nodes : n <= m

NextChain ==
  \/ Tick
  \/ \E author \in {"", "a"}, content \in {"", "hi"} : new_transaction(Obj, author, content)
  \/ mine(Obj)
  \/ add_block_call(Obj)

SpecChain == InitTogether /\ [][NextChain]_vars

\* ------------------------------------------ mine(), statement by statement
\* A node that serves its requests on threads: the threads of node Obj run
\* mine() with no lock, a thread switch falling between any two of the steps
\* below.  new_transaction and the clock run between them as well.

\* lines 119-123: the pool is empty and mine returns False, or the loop takes
\* an iterator over the list the pool is bound to.
mine_enter(t) ==
  /\ pc[t] = "idle"
  /\ IF heap[Obj][pool[Obj]] = <<>>
     THEN /\ last' = Answer("mine", Obj, "False", 0, NoBlock, NoHash)
          /\ UNCHANGED <<pc, loc>>
     ELSE /\ pc' = [pc EXCEPT ![t] = "for"]
          /\ loc' = [loc EXCEPT ![t] = [Idle EXCEPT !.it = pool[Obj],
                                         !.numero = Len(heap[Obj][pool[Obj]])]]
          /\ UNCHANGED last
  /\ UNCHANGED <<chain, heap, pool, peers, now, nextId>>

\* line 123: the iterator yields the next element of its list, as long as the
\* list is at this moment, or the loop ends.
mine_for(t) ==
  /\ pc[t] = "for"
  /\ IF loc[t].pos < Len(heap[Obj][loc[t].it])
     THEN /\ loc' = [loc EXCEPT ![t].pos = @ + 1]
          /\ pc' = [pc EXCEPT ![t] = "build"]
     ELSE /\ pc' = [pc EXCEPT ![t] = "clear"]
          /\ UNCHANGED loc
  /\ UNCHANGED <<chain, heap, pool, peers, now, nextId, last>>

\* lines 125-129: a block over the list the pool is bound to, on the tip.
mine_build(t) ==
  /\ pc[t] = "build"
  /\ Len(chain[Obj]) < MaxChain
  /\ LET lb == last_block(chain[Obj])
     IN  loc' = [loc EXCEPT ![t].new_block =
                   Block(lb.index + 1, pool[Obj], now, lb.hash)]
  /\ pc' = [pc EXCEPT ![t] = "pow"]
  /\ UNCHANGED <<chain, heap, pool, peers, now, nextId, last>>

\* line 130: proof_of_work, over the list as it is while the search runs.
mine_pow(t) ==
  /\ pc[t] = "pow"
  /\ LET sealed == proof_of_work(loc[t].new_block, heap[Obj])
     IN  loc' = [loc EXCEPT ![t].new_block = sealed,
                            ![t].proof = compute_hash(sealed, heap[Obj])]
  /\ pc' = [pc EXCEPT ![t] = "add"]
  /\ UNCHANGED <<chain, heap, pool, peers, now, nextId, last>>

\* add_block, lines 90-96: the two checks against the tip and the list of
\* this moment; a rejected block is dropped and the loop goes on.
mine_add_check(t) ==
  /\ pc[t] = "add"
  /\ pc' = [pc EXCEPT ![t] =
              IF add_block_ok(chain[Obj], heap[Obj], loc[t].new_block, loc[t].proof)
              THEN "append" ELSE "for"]
  /\ UNCHANGED <<chain, heap, pool, peers, now, nextId, last, loc>>

\* add_block, lines 98-100: the append, on whatever the chain is by now.
mine_add_append(t) ==
  /\ pc[t] = "append"
  /\ chain' = [chain EXCEPT ![Obj] =
                 Append(@, [loc[t].new_block EXCEPT !.hash = loc[t].proof])]
  /\ pc' = [pc EXCEPT ![t] = "for"]
  /\ UNCHANGED <<heap, pool, peers, now, nextId, last, loc>>

\* lines 133-134: the pool is bound to a new empty list, whatever add_block
\* answered.
mine_clear(t) ==
  /\ pc[t] = "clear"
  /\ heap' = [heap EXCEPT ![Obj] = Append(@, <<>>)]
  /\ pool' = [pool EXCEPT ![Obj] = Len(heap[Obj]) + 1]
  /\ last' = Answer("mine", Obj, "numero", loc[t].numero, NoBlock, NoHash)
  /\ pc' = [pc EXCEPT ![t] = "idle"]
  /\ loc' = [loc EXCEPT ![t] = Idle]
  /\ UNCHANGED <<chain, peers, now, nextId>>

NextConc ==
  \/ Tick
  \/ \E author \in {"", "a"}, content \in {"", "hi"} : new_transaction(Obj, author, content)
  \/ \E t \in Threads : mine_enter(t)
  \/ \E t \in Threads : mine_for(t)
  \/ \E t \in Threads : mine_build(t)
  \/ \E t \in Threads : mine_pow(t)
  \/ \E t \in Threads : mine_add_check(t)
  \/ \E t \in Threads : mine_add_append(t)
  \/ \E t \in Threads : mine_clear(t)

SpecConc == InitTogether /\ [][NextConc]_vars

\* ----------------------------------------------------------------- claims
\* The transactions of a block, read through the heap of its node.
TxsOf(b, hp) == hp[b.transactions]

\* The digest of every attribute of a block but its hash.
DigestOfOtherFields(b, hp) ==
  sha256(block_string([BlockDict(b, hp) EXCEPT !.hash = NoHash]))

\* C1: one call of mine() on a pool of n >= 1 transactions appends exactly one
\* block: the chain grows by one, the new block has the index after the old
\* tip's, links to the old tip's hash and holds the pool in submission order.
C1_MineAppendsOneBlock ==
  [][(last'.op = "mine" /\ last'.ret = "numero") =>
       LET n == last'.node
           tip == last_block(chain[n])
           new == last_block(chain'[n])
       IN  /\ Len(chain'[n]) = Len(chain[n]) + 1
           /\ new.index = tip.index + 1
           /\ new.previous_hash = tip.hash
           /\ TxsOf(new, heap'[n]) = heap[n][pool[n]]]_vars

\* C8: mine() on an empty pending pool answers False and leaves the chain, the
\* pending pool and everything else of the node as they were.
C8_MineEmptyPoolNoOp ==
  [][(last'.op = "mine" /\ heap[last'.node][pool[last'.node]] = <<>>) =>
       /\ last'.ret = "False"
       /\ UNCHANGED <<chain, heap, pool, peers, nextId>>]_vars

\* A node with a mined block was asked to mine with nothing pending.
C8_Witness ==
  /\ last.op = "mine" /\ last.ret = "False"
  /\ Len(chain[last.node]) > 1
  /\ heap[last.node][pool[last.node]] = <<>>

\* Every block after the first links to the hash of the block before it, and
\* its hash starts with the difficulty prefix and is the digest of its other
\* attributes.
LinkedAndSealed(ch, hp) ==
  \A i \in 2..Len(ch) :
    /\ ch[i].previous_hash = ch[i - 1].hash
    /\ StartsWithZeros(ch[i].hash)
    /\ ch[i].hash = DigestOfOtherFields(ch[i], hp)

\* C2: whatever transactions are submitted, blocks mined and blocks handed to
\* add_block, every block after the genesis block links to its predecessor's
\* hash and carries a hash with the difficulty prefix that is the digest of
\* its index, transactions, timestamp, previous_hash and nonce.
C2_ChainLinkedAndSealed == LinkedAndSealed(chain[Obj], heap[Obj])

\* A chain that holds a mined block and a block appended by add_block.
C2_Witness ==
  /\ \E i \in 2..Len(chain[Obj]) :
       \E k \in 1..Len(TxsOf(chain[Obj][i], heap[Obj])) :
         TxsOf(chain[Obj][i], heap[Obj])[k].id > 0
  /\ \E i \in 2..Len(chain[Obj]) : TxsOf(chain[Obj][i], heap[Obj]) = <<ExtTx>>

\* What add_block is to accept: the block links to the tip, the proof has the
\* difficulty prefix and is the digest of the block as handed over.
Acceptable(ch, b, proof) ==
  /\ b.previous_hash = last_block(ch).hash
  /\ StartsWithZeros(proof)
  /\ proof = sha256(block_string(b))

\* C3: add_block(block, proof) answers True, sets the block's hash to the
\* proof and appends it exactly when the block links to the tip and the proof
\* has the difficulty prefix and is the block's digest; otherwise it answers
\* False and leaves the chain and the pending pool as they were.
C3_AddBlockIffAcceptable ==
  [][last'.op = "add_block" =>
       LET n == last'.node
           b == last'.block
       IN  IF Acceptable(chain[n], b, last'.proof)
           THEN /\ last'.ret = "True"
                /\ Len(chain'[n]) = Len(chain[n]) + 1
                /\ SubSeq(chain'[n], 1, Len(chain[n])) = chain[n]
                /\ BlockDict(last_block(chain'[n]), heap'[n])
                     = [b EXCEPT !.hash = last'.proof]
                /\ heap'[n][pool'[n]] = heap[n][pool[n]]
           ELSE /\ last'.ret = "False"
                /\ chain' = chain
                /\ heap'[n][pool'[n]] = heap[n][pool[n]]]_vars

\* add_block turned down a block that links to the tip and comes with its own
\* digest, which lacks the difficulty prefix.
C3_Witness ==
  /\ last.op = "add_block" /\ last.ret = "False"
  /\ last.block.previous_hash = last_block(chain[last.node]).hash
  /\ last.proof = sha256(block_string(last.block))
  /\ ~StartsWithZeros(last.proof)
  /\ Len(chain[last.node]) > 1

\* The known peers of node n whose chain is longer than n's and is linked and
\* sealed throughout.
Qualifying(n) ==
  {p \in peers[n] : /\ Len(chain[p]) > Len(chain[n])
                    /\ LinkedAndSealed(chain[p], heap[p])}

Hashes(ch) == [i \in 1..Len(ch) |-> ch[i].hash]

\* C4: consensus replaces the local chain only by the chain of a known peer
\* that is strictly longer and valid; when no peer qualifies it answers False
\* and the local chain is as it was.
C4_ConsensusOnlyAdoptsLongerValid ==
  [][last'.op = "consensus" =>
       LET n == last'.node
       IN  /\ chain'[n] # chain[n] =>
                \E p \in Qualifying(n) : Hashes(chain'[n]) = Hashes(chain[p])
           /\ Qualifying(n) = {} => (last'.ret = "False" /\ chain'[n] = chain[n])]_vars

\* C5: when a known peer holds a valid chain strictly longer than the local
\* one, consensus answers True and the local chain is afterwards as long as
\* the longest qualifying peer chain.
C5_ConsensusAdoptsLongest ==
  [][(last'.op = "consensus" /\ Qualifying(last'.node) # {}) =>
       /\ last'.ret = "True"
       /\ Len(chain'[last'.node])
            = Max({Len(chain[p]) : p \in Qualifying(last'.node)})]_vars

\* C6: a block of a peer's chain delivered with all its fields and its hash is
\* appended when it links to the local tip and its hash is a valid proof of
\* it (the chain grows by one and the new tip has the delivered hash), and is
\* rejected with the chain as it was otherwise.
C6_ReceiveBlockAppendsOrRejects ==
  [][last'.op = "validate_and_add_block" =>
       LET n == last'.node
           b == [last'.block EXCEPT !.hash = NoHash]
       IN  IF Acceptable(chain[n], b, last'.proof)
           THEN /\ Len(chain'[n]) = Len(chain[n]) + 1
                /\ last_block(chain'[n]).hash = last'.proof
           ELSE chain'[n] = chain[n]]_vars

\* C7: after register_with reached remote node m, the local chain has the
\* length and the block hashes of m's chain, and m's peers are among the
\* local peers.
C7_RegisterWithCopiesChain ==
  [][(last'.op = "register_with" /\ last'.ret # "400") =>
       LET n == last'.node
           m == last'.num
       IN  /\ Hashes(chain'[n]) = Hashes(chain[m])
           /\ peers'[m] \subseteq peers'[n]]_vars

\* The transactions the node accepted.
Accepted == 1..(nextId - 1)

InList(id, txs) == \E k \in 1..Len(txs) : txs[k].id = id

\* C9: mine() clears the pending pool only after its block was appended, so
\* every accepted transaction is in the pending pool or in a block of the
\* chain.
C9_NoTransactionLost ==
  \A id \in Accepted :
    \/ InList(id, heap[Obj][pool[Obj]])
    \/ \E i \in 1..Len(chain[Obj]) : InList(id, TxsOf(chain[Obj][i], heap[Obj]))

\* C10: whatever the interleaving of concurrent requests, no two blocks of the
\* chain have the same index and every block links to the hash of the block
\* before it.
C10_NoTwinIndexNoBrokenLink ==
  /\ \A i, j \in 1..Len(chain[Obj]) :
       chain[Obj][i].index = chain[Obj][j].index => i = j
  /\ \A i \in 2..Len(chain[Obj]) :
       chain[Obj][i].previous_hash = chain[Obj][i - 1].hash

\* C11: the hash proof_of_work returns has the difficulty prefix and is the
\* digest of the block with the nonce left on it, and no smaller nonce from 0
\* on gives a digest with the prefix.  Every block after the genesis block of
\* a node that serves requests was sealed by proof_of_work.
C11_ProofOfWorkLeastNonce ==
  \A n \in Nodes : \A i \in 2..Len(chain[n]) :
    LET b == chain[n][i]
    IN  /\ b.nonce >= 0
        /\ StartsWithZeros(b.hash)
        /\ b.hash = DigestOfOtherFields(b, heap[n])
        /\ \A k \in 0..(b.nonce - 1) :
             ~StartsWithZeros(DigestOfOtherFields([b EXCEPT !.nonce = k], heap[n]))

\* A mined block whose search went past nonce 0.
C11_Witness ==
  \E n \in Nodes : \E i \in 2..Len(chain[n]) : chain[n][i].nonce > 0

\* C12: a submission whose author or content is empty or missing is answered
\* as invalid and leaves the pending pool and the chain as they were; one
\* with both puts exactly one transaction, the one submitted, at the end of
\* the pending pool and leaves the chain as it was.
C12_SubmissionValidated ==
  [][last'.op = "new_transaction" =>
       LET n == last'.node
           tx == last'.block.transactions[1]
           before == heap[n][pool[n]]
           after == heap'[n][pool'[n]]
       IN  /\ chain_dump(chain'[n], heap'[n]) = chain_dump(chain[n], heap[n])
           /\ IF tx.author = "" \/ tx.content = ""
              THEN last'.ret = "404" /\ after = before
              ELSE /\ last'.ret = "201"
                   /\ Len(after) = Len(before) + 1
                   /\ SubSeq(after, 1, Len(before)) = before
                   /\ after[Len(after)].author = tx.author
                   /\ after[Len(after)].content = tx.content]_vars

\* A submission with an author and no content was turned down while another
\* transaction was pending.
C12_Witness ==
  /\ last.op = "new_transaction" /\ last.ret = "404"
  /\ last.block.transactions[1].author = "a"
  /\ last.block.transactions[1].content = ""
  /\ heap[last.node][pool[last.node]] # <<>>

\* C13: when the chain of a peer cannot be fetched, consensus raises nothing,
\* and a longer valid chain of a peer that can be reached is still adopted.
C13_UnreachablePeerSkipped ==
  [][(last'.op = "consensus" /\ last'.down # {}) =>
       LET n == last'.node
           reached == Qualifying(n) \ last'.down
       IN  /\ last'.ret \in {"True", "False"}
           /\ reached # {} =>
                \E p \in reached : Hashes(chain'[n]) = Hashes(chain[p])]_vars

\* A chain that starts with a genesis block: index 0, no transactions,
\* previous_hash "0".
GenesisInPlace(ch, hp) ==
  /\ Len(ch) >= 1
  /\ ch[1].index = 0
  /\ TxsOf(ch[1], hp) = <<>>
  /\ ch[1].previous_hash = ZeroString

\* C14: in every reachable state the chain is not empty and starts with the
\* genesis block (index 0, no transactions, previous_hash "0"), and no mine
\* and no add_block removes, replaces or changes that block.
C14_GenesisStays ==
  /\ [](\A n \in Nodes : GenesisInPlace(chain[n], heap[n]))
  /\ [][last'.op \in {"mine", "add_block"} =>
          /\ chain'[last'.node][1] = chain[last'.node][1]
          /\ TxsOf(chain'[last'.node][1], heap'[last'.node])
               = TxsOf(chain[last'.node][1], heap[last'.node])]_vars

\* add_block appended a third block to a chain.
C14_Witness ==
  /\ last.op = "add_block" /\ last.ret = "True"
  /\ Len(chain[last.node]) >= 3

\* The number of blocks of a chain that hold transaction id.
RECURSIVE BlocksHolding(_, _, _)
BlocksHolding(id, ch, hp) ==
  IF ch = <<>> THEN 0
  ELSE (IF InList(id, TxsOf(Head(ch), hp)) THEN 1 ELSE 0)
       + BlocksHolding(id, Tail(ch), hp)

\* C15: with submissions and mine() calls handled one at a time, every
\* accepted transaction is in the pending pool or in exactly one block of the
\* chain, not in both and not in two blocks.
C15_PendingOrInOneBlock ==
  \A id \in Accepted :
    (IF InList(id, heap[Obj][pool[Obj]]) THEN 1 ELSE 0)
      + BlocksHolding(id, chain[Obj], heap[Obj]) = 1

\* C16: compute_hash() of a block stored in the chain, the genesis block
\* included, is the hash stored on it.
C16_RecomputedHashIsStoredHash ==
  \A i \in 1..Len(chain[Obj]) :
    compute_hash(chain[Obj][i], heap[Obj]) = chain[Obj][i].hash

\* C17: a transaction submitted while mine() runs changes no block, so the
\* hash of every appended block stays the digest of the attributes it has.
C17_AppendedBlocksKeepTheirFields ==
  \A i \in 2..Len(chain[Obj]) :
    DigestOfOtherFields(chain[Obj][i], heap[Obj]) = chain[Obj][i].hash

\* C18: the chains of any two nodes start with the same genesis block, of the
\* same hash, so a block mined on the genesis block of one node links to the
\* genesis block of every node.
C18_OneGenesisForAll ==
  \A n, m \in Nodes :
    /\ chain[n][1].hash = chain[m][1].hash
    /\ Len(chain[n]) >= 2 /\ chain[n][2].previous_hash = chain[n][1].hash
         => chain[n][2].previous_hash = chain[m][1].hash

Supplied(b, hp) == TxsOf(b, hp) = <<ExtTx>>

====
